---- MODULE Spec2Model ----
(***************************************************************************)
(* A model of the NBT codec of kregerl/nbt: the tag-kind model (kind.rs),  *)
(* the primitive writer (writer.rs), the encode engine (ser.rs) and the    *)
(* decode engine (de.rs).                                                  *)
(*                                                                         *)
(* Representation.                                                         *)
(*   bytes    : sequences of 0..255                                        *)
(*   strings  : the sequence of their UTF-8 bytes                          *)
(*   kinds    : the names of the NBTKind variants                          *)
(*   values   : records << shape, payload >>; the payload of an    *)
(*              i64 is the pair <<high 32 bits, low 32 bits>>, both read   *)
(*              as signed 32-bit integers                                  *)
(*   targets  : records << shape, parameters >>, the shape the     *)
(*              caller asks the decoder for (the Deserialize impl of T)    *)
(***************************************************************************)
EXTENDS Integers, Sequences, FiniteSets, TLC

(***************************************************************************)
(* Bounds of the model.                                                    *)
(***************************************************************************)
MaxInt == 2
MaxLen == 3
MaxDepth == 4

\* the element of a one-element set: The({ e(x) : x \in { d } }) is e(d), with
\* d evaluated once
The(S) == CHOOSE x \in S : TRUE

(***************************************************************************)
(* kind.rs                                                                 *)
(***************************************************************************)
NBTKind ==
    {"End", "Byte", "Short", "Int", "Long", "Float", "Double", "ByteArray",
     "String", "List", "Compound", "IntArray", "LongArray"}

header_byte(kind) ==
    CASE kind = "End" -> 0
      [] kind = "Byte" -> 1
      [] kind = "Short" -> 2
      [] kind = "Int" -> 3
      [] kind = "Long" -> 4
      [] kind = "Float" -> 5
      [] kind = "Double" -> 6
      [] kind = "ByteArray" -> 7
      [] kind = "String" -> 8
      [] kind = "List" -> 9
      [] kind = "Compound" -> 10
      [] kind = "IntArray" -> 11
      [] kind = "LongArray" -> 12

\* impl From<u8> for NBTKind: the last arm is unreachable!(), a panic.
KindFromU8(value) ==
    CASE value = 0 -> "End"
      [] value = 1 -> "Byte"
      [] value = 2 -> "Short"
      [] value = 3 -> "Int"
      [] value = 4 -> "Long"
      [] value = 5 -> "Float"
      [] value = 6 -> "Double"
      [] value = 7 -> "ByteArray"
      [] value = 8 -> "String"
      [] value = 9 -> "List"
      [] value = 10 -> "Compound"
      [] value = 11 -> "IntArray"
      [] value = 12 -> "LongArray"
      [] OTHER -> "PANIC"

(***************************************************************************)
(* Big-endian fixed-width integers (byteorder::BigEndian).                 *)
(***************************************************************************)
U8OfI8(n) == n % 256
I8OfU8(b) == IF b >= 128 THEN b - 256 ELSE b

BE16(n) == << (n \div 256) % 256, n % 256 >>
BE32(n) == << (n \div 16777216) % 256, (n \div 65536) % 256,
              (n \div 256) % 256, n % 256 >>
BE64(l) == BE32(l[1]) \o BE32(l[2])

FromBE16(b) == I8OfU8(b[1]) * 256 + b[2]
FromBEU16(b) == b[1] * 256 + b[2]
FromBE32(b) == I8OfU8(b[1]) * 16777216 + b[2] * 65536 + b[3] * 256 + b[4]
FromBE64(b) == << FromBE32(SubSeq(b, 1, 4)), FromBE32(SubSeq(b, 5, 8)) >>

(***************************************************************************)
(* writer.rs: DelayedHeader and the Writer methods.  A call of a Writer    *)
(* method is recorded as an event; WriterBytes gives the bytes it puts in  *)
(* the sink.                                                               *)
(***************************************************************************)
NoHeader == [d |-> "None", key |-> << >>, len |-> 0]
MapKey(key) == [d |-> "MapKey", key |-> key, len |-> 0]
ListHeader(len) == [d |-> "List", key |-> << >>, len |-> len]

\* by names the serializer method that made the call
Call(c, kind, dh, n, l, s) ==
    [c |-> c, kind |-> kind, dh |-> dh, n |-> n, l |-> l, s |-> s, by |-> "Writer"]

write_tag_header(kind, dh) == Call("write_tag_header", kind, dh, 0, <<0, 0>>, << >>)
write_i8(n) == Call("write_i8", "End", NoHeader, n, <<0, 0>>, << >>)
write_i16(n) == Call("write_i16", "End", NoHeader, n, <<0, 0>>, << >>)
write_i32(n) == Call("write_i32", "End", NoHeader, n, <<0, 0>>, << >>)
write_i64(l) == Call("write_i64", "End", NoHeader, 0, l, << >>)
\* a float is its IEEE-754 bit pattern: an i32 for f32, an i64 for f64
write_f32(n) == Call("write_f32", "End", NoHeader, n, <<0, 0>>, << >>)
write_f64(l) == Call("write_f64", "End", NoHeader, 0, l, << >>)
write_string(s) == Call("write_string", "End", NoHeader, 0, <<0, 0>>, s)

\* Writer::write_string: the prefix is string.len() as u16.
StringBytes(s) == BE16(Len(s) % 65536) \o s

WriterBytes(call) ==
    CASE call.c = "write_tag_header" ->
            << header_byte(call.kind) >> \o
            (CASE call.dh.d = "MapKey" -> StringBytes(call.dh.key)
               [] call.dh.d = "List" -> BE32(call.dh.len)
               [] OTHER -> << >>)
      [] call.c = "write_i8" -> << U8OfI8(call.n) >>
      [] call.c = "write_i16" -> BE16(call.n)
      [] call.c = "write_i32" -> BE32(call.n)
      [] call.c = "write_i64" -> BE64(call.l)
      [] call.c = "write_f32" -> BE32(call.n)
      [] call.c = "write_f64" -> BE64(call.l)
      [] call.c = "write_string" -> StringBytes(call.s)

RECURSIVE SinkBytes(_)
SinkBytes(calls) ==
    IF calls = << >> THEN << >>
    ELSE WriterBytes(Head(calls)) \o SinkBytes(Tail(calls))

(***************************************************************************)
(* ser.rs: the encode engine.  A serializer call yields the Writer calls   *)
(* it made and how it ended; the calls made before an error stay made.     *)
(***************************************************************************)
SerOk(calls) == [st |-> "ok", err |-> "None", calls |-> calls]
SerErr(err, calls) == [st |-> "err", err |-> err, calls |-> calls]

\* a ? b: run b after a unless a failed
SerThen(a, b) ==
    IF a.st = "ok" THEN [b EXCEPT !.calls = a.calls \o b.calls] ELSE a

\* the calls, as made by the serializer method by
RECURSIVE By(_, _)
By(by, calls) ==
    IF calls = << >> THEN SerOk(<< >>)
    ELSE SerOk(<< [Head(calls) EXCEPT !.by = by] >> \o By(by, Tail(calls)).calls)

BoolAsI8(b) == IF b THEN 1 ELSE 0

ArrayKind(t) ==
    CASE t = "byte_array" -> "ByteArray"
      [] t = "int_array" -> "IntArray"
      [] t = "long_array" -> "LongArray"

\* NBTSerializerImpl::write
ImplWrite(kind, dh, skip) ==
    IF ~skip THEN By("write", << write_tag_header(kind, dh) >>) ELSE SerOk(<< >>)

\* serialize_tuple that hands no list length on to the elements
serialize_tuple_no_count(len, dh) ==
    [calls |-> << write_tag_header("List", dh) >>, dh |-> NoHeader, skip |-> FALSE]

\* serialize_tuple that treats the empty sequence as any other: the element
\* kind and the count are left to a first element
serialize_tuple_plain_empty(len, dh) ==
    [calls |-> << write_tag_header("List", dh) >>, dh |-> ListHeader(len), skip |-> FALSE]

\* NBTSerializerImpl::serialize_tuple, up to the NBTSeqSerializer it returns:
\* the calls made and the (deferred_header, skip_header) of the elements
serialize_tuple(len, dh) ==
    IF len = 0
    THEN [calls |-> << write_tag_header("List", dh),
                       write_tag_header("End", NoHeader), write_i32(0) >>,
          dh |-> NoHeader, skip |-> FALSE]
    ELSE [calls |-> << write_tag_header("List", dh) >>,
          dh |-> ListHeader(len), skip |-> FALSE]

\* the length a sequence gives serialize_seq up front: NoLen is None
NoLen == -1

\* NBTSerializerImpl::serialize_seq
serialize_seq(len, dh) == serialize_tuple(IF len = NoLen THEN 0 ELSE len, dh)

\* NBTSerializerImpl::serialize_tuple_struct for the three array names
serialize_tuple_struct(kind, len, dh) ==
    IF len = 0
    THEN [calls |-> << write_tag_header(kind, dh),
                       write_tag_header("End", NoHeader), write_i32(0) >>,
          dh |-> NoHeader, skip |-> TRUE]
    ELSE [calls |-> << write_tag_header(kind, dh), write_i32(len) >>,
          dh |-> NoHeader, skip |-> TRUE]

RECURSIVE Serialize(_, _, _)
RECURSIVE SerializeElements(_, _, _)
RECURSIVE SerializeFields(_)
RECURSIVE SerializeEntries(_)

\* Iterator::size_hint: the upper bound None
NoMax == -1

\* serialize_array! without its two checks of the size hint
serialize_array_unchecked(array_type, length, max_length, elems, dh) ==
    LET se == serialize_tuple_struct(ArrayKind(array_type), length, dh)
        taken == IF Len(elems) < length THEN Len(elems) ELSE length
    IN  SerThen(By("serialize_tuple_struct", se.calls),
                SerializeElements(SubSeq(elems, 1, taken), se.dh, se.skip))

\* serialize_array! (byte_array, int_array, long_array): the collection has
\* the size hint (length, max_length) and yields elems
serialize_array(array_type, length, max_length, elems, dh) ==
    IF max_length = NoMax \/ length # max_length THEN SerErr("Message", << >>)
    ELSE LET se == serialize_tuple_struct(ArrayKind(array_type), length, dh)
             taken == IF Len(elems) < length THEN Len(elems) ELSE length
         IN  SerThen(By("serialize_tuple_struct", se.calls),
             SerThen(SerializeElements(SubSeq(elems, 1, taken), se.dh, se.skip),
                     IF Len(elems) # length THEN SerErr("Message", << >>)
                     ELSE SerOk(<< >>)))

\* impl Serializer for NBTSerializerImpl: value.serialize(NBTSerializerImpl
\* { deferred_header: dh, skip_header: skip })
Serialize(value, dh, skip) ==
    CASE value[1] = "bool" -> Serialize(<< "i8", BoolAsI8(value[2]) >>, dh, skip)
      [] value[1] = "i8" ->
            SerThen(ImplWrite("Byte", dh, skip), By("serialize_i8", << write_i8(value[2]) >>))
      [] value[1] = "i16" ->
            By("serialize_i16", << write_tag_header("Short", dh), write_i16(value[2]) >>)
      [] value[1] = "i32" ->
            By("serialize_i32", << write_tag_header("Int", dh), write_i32(value[2]) >>)
      [] value[1] = "i64" ->
            By("serialize_i64", << write_tag_header("List", dh), write_i64(value[2]) >>)
      [] value[1] = "f32" ->
            By("serialize_f32", << write_tag_header("Float", dh), write_f32(value[2]) >>)
      [] value[1] = "f64" ->
            By("serialize_f64", << write_tag_header("Double", dh), write_f64(value[2]) >>)
      [] value[1] = "str" ->
            By("serialize_str", << write_tag_header("String", dh), write_string(value[2]) >>)
      [] value[1] = "none" -> SerOk(<< >>)
      [] value[1] = "some" -> Serialize(value[2][1], dh, skip)
      [] value[1] \in {"newtype", "newtype_variant"} -> Serialize(value[2][1], dh, skip)
      [] value[1] = "unit_struct" ->
            By("serialize_unit_struct", << write_tag_header("End", dh) >>)
      [] value[1] \in {"seq", "seq_unsized", "tuple", "tuple_variant"} ->
            LET se == CASE value[1] = "tuple" -> serialize_tuple(Len(value[2]), dh)
                        [] value[1] = "seq_unsized" -> serialize_seq(NoLen, dh)
                        [] OTHER -> serialize_seq(Len(value[2]), dh)
            IN  SerThen(By("serialize_tuple", se.calls),
                        SerializeElements(value[2], se.dh, se.skip))
      [] value[1] \in {"byte_array", "int_array", "long_array"} ->
            serialize_array(value[1], Len(value[2]), Len(value[2]), value[2], dh)
      [] value[1] = "array_iter" ->
            serialize_array(value[2][1], value[2][2], value[2][3], value[2][4], dh)
      [] value[1] = "map" ->
            SerThen(SerializeEntries(value[2]),
                    By("end", << write_tag_header("End", NoHeader) >>))
      [] value[1] = "struct" ->
            SerThen(By("serialize_struct", << write_tag_header("Compound", dh) >>),
            SerThen(SerializeFields(value[2]),
                    By("end", << write_tag_header("End", NoHeader) >>)))
      [] value[1] \in {"u8", "u16", "u32", "u64", "char", "bytes", "unit",
                       "unit_variant", "struct_variant", "tuple_struct"} ->
            SerErr("Unrepresentable", << >>)

\* NBTSeqSerializer::serialize_element, for each element in turn
SerializeElements(elems, dh, skip) ==
    IF elems = << >> THEN SerOk(<< >>)
    ELSE SerThen(Serialize(Head(elems), dh, skip),
                 SerializeElements(Tail(elems), dh, skip))

\* NBTStructSerializer::serialize_field, for each field in turn
SerializeFields(fields) ==
    IF fields = << >> THEN SerOk(<< >>)
    ELSE SerThen(Serialize(Head(fields)[2], MapKey(Head(fields)[1]), FALSE),
                 SerializeFields(Tail(fields)))

\* NBTMapSerializer::serialize_key and serialize_value, for each entry in turn
SerializeEntries(entries) ==
    IF entries = << >> THEN SerOk(<< >>)
    ELSE SerThen(Serialize(Head(entries)[1], NoHeader, FALSE),
         SerThen(Serialize(Head(entries)[2], NoHeader, FALSE),
                 SerializeEntries(Tail(entries))))

\* impl Serializer for &mut NBTSerializer: the root of the value
RECURSIVE RootSerialize(_)
RootSerialize(value) ==
    CASE value[1] \in {"bool", "u8", "u16", "u32", "u64", "char"} ->
            SerErr("Unrepresentable", << >>)
      [] value[1] = "newtype" -> RootSerialize(value[2][1])
      [] value[1] = "map" ->
            SerThen(By("serialize_map", << write_tag_header("Compound", NoHeader), write_string(<< >>) >>),
            SerThen(SerializeEntries(value[2]),
                    By("end", << write_tag_header("End", NoHeader) >>)))
      [] value[1] = "struct" ->
            SerThen(By("serialize_struct", << write_tag_header("Compound", NoHeader), write_string(<< >>) >>),
            SerThen(SerializeFields(value[2]),
                    By("end", << write_tag_header("End", NoHeader) >>)))
      [] OTHER -> SerErr("ExpectedRootCompound", << >>)

\* to_bytes that hands back the Vec<u8> as it is when serialize has failed
to_bytes_partial(value) ==
    The({ [st |-> r.st, err |-> r.err, calls |-> r.calls, out |-> SinkBytes(r.calls)] :
          r \in { RootSerialize(value) } })

\* to_bytes: Ok(result) only if the whole value was serialized
to_bytes(value) ==
    The({ [st |-> r.st, err |-> r.err, calls |-> r.calls,
           out |-> IF r.st = "ok" THEN SinkBytes(r.calls) ELSE << >>] :
          r \in { RootSerialize(value) } })


(***************************************************************************)
(* de.rs: the primitive reads of NBTDeserializer.  pos is the number of    *)
(* bytes consumed so far.  A read yields [st, x, pos] with st "ok", "io"   *)
(* (short input) or "panic".                                               *)
(***************************************************************************)
Avail(s, pos, n) == pos + n <= Len(s)
Bytes(s, pos, n) == SubSeq(s, pos + 1, pos + n)

Cont(b) == b >= 128 /\ b <= 191

\* String::from_utf8: whether the bytes are well-formed UTF-8
RECURSIVE IsUtf8(_)
IsUtf8(b) ==
    IF b = << >> THEN TRUE
    ELSE LET n == Len(b) c == b[1] IN
         CASE c <= 127 -> IsUtf8(Tail(b))
           [] c >= 194 /\ c <= 223 ->
                n >= 2 /\ Cont(b[2]) /\ IsUtf8(SubSeq(b, 3, n))
           [] c >= 224 /\ c <= 239 ->
                /\ n >= 3
                /\ Cont(b[2]) /\ Cont(b[3])
                /\ (c = 224 => b[2] >= 160)
                /\ (c = 237 => b[2] <= 159)
                /\ IsUtf8(SubSeq(b, 4, n))
           [] c >= 240 /\ c <= 244 ->
                /\ n >= 4
                /\ Cont(b[2]) /\ Cont(b[3]) /\ Cont(b[4])
                /\ (c = 240 => b[2] >= 144)
                /\ (c = 244 => b[2] <= 143)
                /\ IsUtf8(SubSeq(b, 5, n))
           [] OTHER -> FALSE

\* parse_kind that takes the end of the input for an End tag
parse_kind_eof_as_end(s, pos) ==
    IF ~Avail(s, pos, 1) THEN [st |-> "ok", x |-> "End", pos |-> pos]
    ELSE LET kind == KindFromU8(s[pos + 1]) IN
         IF kind = "PANIC" THEN [st |-> "panic", x |-> "End", pos |-> pos + 1]
         ELSE [st |-> "ok", x |-> kind, pos |-> pos + 1]

\* NBTDeserializer::parse_kind
parse_kind(s, pos) ==
    IF ~Avail(s, pos, 1) THEN [st |-> "io", x |-> "End", pos |-> pos]
    ELSE LET kind == KindFromU8(s[pos + 1]) IN
         IF kind = "PANIC" THEN [st |-> "panic", x |-> "End", pos |-> pos + 1]
         ELSE [st |-> "ok", x |-> kind, pos |-> pos + 1]

parse_i8(s, pos) ==
    IF ~Avail(s, pos, 1) THEN [st |-> "io", x |-> 0, pos |-> pos]
    ELSE [st |-> "ok", x |-> I8OfU8(s[pos + 1]), pos |-> pos + 1]

parse_i16(s, pos) ==
    IF ~Avail(s, pos, 2) THEN [st |-> "io", x |-> 0, pos |-> pos]
    ELSE [st |-> "ok", x |-> FromBE16(Bytes(s, pos, 2)), pos |-> pos + 2]

parse_i32(s, pos) ==
    IF ~Avail(s, pos, 4) THEN [st |-> "io", x |-> 0, pos |-> pos]
    ELSE [st |-> "ok", x |-> FromBE32(Bytes(s, pos, 4)), pos |-> pos + 4]

parse_i64(s, pos) ==
    IF ~Avail(s, pos, 8) THEN [st |-> "io", x |-> <<0, 0>>, pos |-> pos]
    ELSE [st |-> "ok", x |-> FromBE64(Bytes(s, pos, 8)), pos |-> pos + 8]

\* NBTDeserializer::parse_string: String::from_utf8(buffer).unwrap()
parse_string(s, pos) ==
    IF ~Avail(s, pos, 2) THEN [st |-> "io", x |-> << >>, pos |-> pos]
    ELSE LET name_length == FromBEU16(Bytes(s, pos, 2)) IN
         IF ~Avail(s, pos + 2, name_length)
         THEN [st |-> "io", x |-> << >>, pos |-> pos + 2]
         ELSE LET buffer == Bytes(s, pos + 2, name_length) IN
              IF IsUtf8(buffer)
              THEN [st |-> "ok", x |-> buffer, pos |-> pos + 2 + name_length]
              ELSE [st |-> "panic", x |-> << >>, pos |-> pos + 2 + name_length]

(***************************************************************************)
(* Results of a decode: st is "ok" (v is the value), "err" (err is the     *)
(* Error returned), "panic" (the thread unwinds, nothing is returned) or   *)
(* "overflow" (current_pos runs up to i32::MAX without reading a byte).    *)
(***************************************************************************)
NoError == [e |-> "None", k1 |-> "End", k2 |-> "End", b |-> 0]
Error(e) == [e |-> e, k1 |-> "End", k2 |-> "End", b |-> 0]
MismatchedTag(k1, k2) == [e |-> "MismatchedTag", k1 |-> k1, k2 |-> k2, b |-> 0]
ExpectedBooleanByte(b) == [e |-> "ExpectedBooleanByte", k1 |-> "End", k2 |-> "End", b |-> b]

Unit == << "unit", << >> >>
Ignored == << "ignored", << >> >>

DecOk(v, pos) == [st |-> "ok", err |-> NoError, v |-> v, pos |-> pos]
DecErr(err, pos) == [st |-> "err", err |-> err, v |-> Unit, pos |-> pos]
DecPanic(pos) == [st |-> "panic", err |-> NoError, v |-> Unit, pos |-> pos]
DecOverflow(pos) == [st |-> "overflow", err |-> NoError, v |-> Unit, pos |-> pos]

\* the ? operator on a primitive read that did not succeed
DecFail(r) == IF r.st = "panic" THEN DecPanic(r.pos) ELSE DecErr(Error("Io"), r.pos)


(***************************************************************************)
(* The visitors of the targets (serde's Deserialize impls): what a target  *)
(* does with the visit_* call the decoder makes.  A visitor that does not  *)
(* take the call answers with a custom error, Error::Message.              *)
(***************************************************************************)
Target(t) == << t, << >> >>
IgnoredAny == Target("ignored")

IntRange(t) ==
    CASE t = "i8" -> [lo |-> -128, hi |-> 127]
      [] t = "i16" -> [lo |-> -32768, hi |-> 32767]
      [] OTHER -> [lo |-> -2147483647 - 1, hi |-> 2147483647]

SignExtend(n) == << IF n < 0 THEN -1 ELSE 0, n >>

\* visit_i8 / visit_i16 / visit_i32 / visit_i64 of the target tgt
VisitInt(tgt, kind, x, pos) ==
    LET isLong == kind = "Long"
        fits32 == ~isLong \/ x = SignExtend(x[2])
        n == IF isLong THEN x[2] ELSE x
    IN  CASE tgt[1] \in {"i8", "i16", "i32"} ->
                IF fits32 /\ n >= IntRange(tgt[1]).lo /\ n <= IntRange(tgt[1]).hi
                THEN DecOk(<< tgt[1], n >>, pos)
                ELSE DecErr(Error("Message"), pos)
          [] tgt[1] = "i64" ->
                DecOk(<< "i64", IF isLong THEN x ELSE SignExtend(n) >>, pos)
          [] tgt[1] = "ignored" -> DecOk(Ignored, pos)
          [] OTHER -> DecErr(Error("Message"), pos)

\* visit_f32 / visit_f64 of the target tgt; a float is its bit pattern
VisitFloat(tgt, kind, x, pos) ==
    CASE tgt[1] = "f32" /\ kind = "Float" -> DecOk(<< "f32", x >>, pos)
      [] tgt[1] = "f64" /\ kind = "Double" -> DecOk(<< "f64", x >>, pos)
      [] tgt[1] = "ignored" -> DecOk(Ignored, pos)
      [] OTHER -> DecErr(Error("Message"), pos)

\* visit_string of the target tgt
VisitString(tgt, x, pos) ==
    CASE tgt[1] = "str" -> DecOk(<< "str", x >>, pos)
      [] tgt[1] = "ignored" -> DecOk(Ignored, pos)
      [] OTHER -> DecErr(Error("Message"), pos)

RECURSIVE LexLess(_, _)
LexLess(a, b) ==
    IF b = << >> THEN FALSE
    ELSE IF a = << >> THEN TRUE
    ELSE IF a[1] # b[1] THEN a[1] < b[1]
    ELSE LexLess(Tail(a), Tail(b))

\* BTreeMap::insert: entries stay ordered by key, a repeated key is replaced
RECURSIVE MapInsert(_, _, _)
MapInsert(entries, key, val) ==
    IF entries = << >> THEN << <<key, val>> >>
    ELSE IF Head(entries)[1] = key THEN << <<key, val>> >> \o Tail(entries)
    ELSE IF LexLess(key[2], Head(entries)[1][2]) THEN << <<key, val>> >> \o entries
    ELSE << Head(entries) >> \o MapInsert(Tail(entries), key, val)

RECURSIVE FieldIndex(_, _)
FieldIndex(fields, name) ==
    IF fields = << >> THEN 0
    ELSE IF Head(fields)[1] = name THEN 1
    ELSE LET i == FieldIndex(Tail(fields), name) IN IF i = 0 THEN 0 ELSE i + 1

\* the end of a derived struct visitor: a field that was not seen is None if
\* it is an Option and a missing-field error otherwise
RECURSIVE StructFinish(_, _)
StructFinish(fields, acc) ==
    IF fields = << >> THEN [ok |-> TRUE, v |-> << >>]
    ELSE LET f == Head(fields)
             i == FieldIndex(acc, f[1])
             rest == StructFinish(Tail(fields), acc)
         IN  IF i = 0 /\ f[2][1] # "option" THEN [ok |-> FALSE, v |-> << >>]
             ELSE [ok |-> rest.ok,
                   v |-> << <<f[1], IF i = 0 THEN << "none", << >> >>
                                    ELSE acc[i][2]>> >> \o rest.v]


(***************************************************************************)
(* de.rs: the decode engine.                                               *)
(***************************************************************************)
RECURSIVE Deserialize(_, _, _, _)
RECURSIVE deserialize_any(_, _, _, _)
RECURSIVE next_element_seed(_, _, _, _, _, _)
RECURSIVE next_value_seed(_, _, _, _)
RECURSIVE VisitSeq(_, _, _, _, _)
RECURSIVE VisitMap(_, _, _)
RECURSIVE SeqLoop(_, _, _, _, _, _, _)
RECURSIVE StructFromSeq(_, _, _, _, _, _, _)
RECURSIVE StructLoop(_, _, _, _, _)
RECURSIVE MapLoop(_, _, _, _, _)
RECURSIVE IgnoredMapLoop(_, _, _)

\* from_list that reads the count and no element kind byte
from_list_unkinded(s, pos) ==
    LET length == parse_i32(s, pos) IN
    IF length.st # "ok" THEN [r |-> DecFail(length), kind |-> "End", length |-> 0]
    ELSE [r |-> DecOk(Unit, length.pos), kind |-> "Byte", length |-> length.x]

\* NBTSeqDeserializer::from_list
from_list(s, pos) ==
    LET kind == parse_kind(s, pos) IN
    IF kind.st # "ok" THEN [r |-> DecFail(kind), kind |-> "End", length |-> 0]
    ELSE LET length == parse_i32(s, kind.pos) IN
         IF length.st # "ok" THEN [r |-> DecFail(length), kind |-> "End", length |-> 0]
         ELSE [r |-> DecOk(Unit, length.pos), kind |-> kind.x, length |-> length.x]

\* from_array that reads an element kind byte first, as from_list does
from_array_kinded(s, pos, kind) == from_list(s, pos)

\* NBTSeqDeserializer::from_array
from_array(s, pos, kind) ==
    LET length == parse_i32(s, pos) IN
    IF length.st # "ok" THEN [r |-> DecFail(length), kind |-> "End", length |-> 0]
    ELSE [r |-> DecOk(Unit, length.pos), kind |-> kind, length |-> length.x]

\* NBTSeqDeserializer::next_element_seed: some = FALSE is Ok(None)
next_element_seed(s, pos, kind, length, current_pos, tgt) ==
    IF current_pos = length THEN [r |-> DecOk(Unit, pos), some |-> FALSE]
    ELSE [r |-> Deserialize(s, pos, kind, tgt), some |-> TRUE]

\* next_key_seed that saves the kind of the first entry only
next_key_seed_keep_first(s, pos, saved, keyT) ==
    LET kind == parse_kind(s, pos) IN
    IF kind.st # "ok" THEN [r |-> DecFail(kind), some |-> FALSE, saved |-> saved]
    ELSE IF kind.x = "End" THEN [r |-> DecOk(Unit, kind.pos), some |-> FALSE, saved |-> saved]
    ELSE [r |-> Deserialize(s, kind.pos, "String", keyT), some |-> TRUE,
          saved |-> IF saved = "None" THEN kind.x ELSE saved]

\* NBTMapDeserializer::next_key_seed: saved is self.kind ("None" for None)
next_key_seed(s, pos, saved, keyT) ==
    LET kind == parse_kind(s, pos) IN
    IF kind.st # "ok" THEN [r |-> DecFail(kind), some |-> FALSE, saved |-> saved]
    ELSE IF kind.x = "End" THEN [r |-> DecOk(Unit, kind.pos), some |-> FALSE, saved |-> saved]
    ELSE [r |-> Deserialize(s, kind.pos, "String", keyT), some |-> TRUE, saved |-> kind.x]

\* next_value_seed that takes every value for a String, as the key is taken
next_value_seed_as_key(s, pos, saved, tgt) ==
    IF saved = "None" THEN DecPanic(pos) ELSE Deserialize(s, pos, "String", tgt)

\* NBTMapDeserializer::next_value_seed
next_value_seed(s, pos, saved, tgt) ==
    IF saved = "None" THEN DecPanic(pos) ELSE Deserialize(s, pos, saved, tgt)

\* deserialize_bool that takes every non-zero byte for true
deserialize_bool_lenient(s, pos, kind) ==
    IF kind = "Byte"
    THEN LET b == parse_i8(s, pos) IN
         IF b.st # "ok" THEN DecFail(b)
         ELSE DecOk(<< "bool", b.x # 0 >>, b.pos)
    ELSE DecErr(MismatchedTag(kind, "Byte"), pos)

\* NBTDeserializerImpl::deserialize_bool
deserialize_bool(s, pos, kind) ==
    IF kind = "Byte"
    THEN LET b == parse_i8(s, pos) IN
         IF b.st # "ok" THEN DecFail(b)
         ELSE CASE b.x = 0 -> DecOk(<< "bool", FALSE >>, b.pos)
                [] b.x = 1 -> DecOk(<< "bool", TRUE >>, b.pos)
                [] OTHER -> DecErr(ExpectedBooleanByte(b.x), b.pos)
    ELSE DecErr(MismatchedTag(kind, "Byte"), pos)

\* T::deserialize(&mut NBTDeserializerImpl { kind }): the deserialize_*
\* method the target calls
Deserialize(s, pos, kind, tgt) ==
    CASE tgt[1] = "bool" -> deserialize_bool(s, pos, kind)
      [] tgt[1] = "option" ->
            LET r == Deserialize(s, pos, kind, tgt[2][1]) IN
            IF r.st = "ok" THEN DecOk(<< "some", << r.v >> >>, r.pos) ELSE r
      [] tgt[1] = "newtype" ->
            LET r == Deserialize(s, pos, kind, tgt[2][1]) IN
            IF r.st = "ok" THEN DecOk(<< "newtype", << r.v >> >>, r.pos) ELSE r
      [] tgt[1] \in {"unit", "unit_struct"} -> DecOk(<< tgt[1], << >> >>, pos)
      [] OTHER -> deserialize_any(s, pos, kind, tgt)

\* NBTDeserializerImpl::deserialize_any with the visitor of tgt
deserialize_any(s, pos, kind, tgt) ==
    CASE kind = "Byte" ->
            LET x == parse_i8(s, pos) IN
            IF x.st # "ok" THEN DecFail(x) ELSE VisitInt(tgt, kind, x.x, x.pos)
      [] kind = "Short" ->
            LET x == parse_i16(s, pos) IN
            IF x.st # "ok" THEN DecFail(x) ELSE VisitInt(tgt, kind, x.x, x.pos)
      [] kind = "Int" ->
            LET x == parse_i32(s, pos) IN
            IF x.st # "ok" THEN DecFail(x) ELSE VisitInt(tgt, kind, x.x, x.pos)
      [] kind = "Long" ->
            LET x == parse_i64(s, pos) IN
            IF x.st # "ok" THEN DecFail(x) ELSE VisitInt(tgt, kind, x.x, x.pos)
      [] kind = "Float" ->
            LET x == parse_i32(s, pos) IN
            IF x.st # "ok" THEN DecFail(x) ELSE VisitFloat(tgt, kind, x.x, x.pos)
      [] kind = "Double" ->
            LET x == parse_i64(s, pos) IN
            IF x.st # "ok" THEN DecFail(x) ELSE VisitFloat(tgt, kind, x.x, x.pos)
      [] kind = "ByteArray" ->
            LET a == from_array(s, pos, "Byte") IN
            IF a.r.st # "ok" THEN a.r ELSE VisitSeq(tgt, s, a.r.pos, a.kind, a.length)
      [] kind = "String" ->
            LET x == parse_string(s, pos) IN
            IF x.st # "ok" THEN DecFail(x) ELSE VisitString(tgt, x.x, x.pos)
      [] kind = "List" ->
            LET a == from_list(s, pos) IN
            IF a.r.st # "ok" THEN a.r ELSE VisitSeq(tgt, s, a.r.pos, a.kind, a.length)
      [] kind = "Compound" -> VisitMap(tgt, s, pos)
      [] kind = "IntArray" ->
            LET a == from_array(s, pos, "Int") IN
            IF a.r.st # "ok" THEN a.r ELSE VisitSeq(tgt, s, a.r.pos, a.kind, a.length)
      [] kind = "LongArray" ->
            LET a == from_array(s, pos, "Long") IN
            IF a.r.st # "ok" THEN a.r ELSE VisitSeq(tgt, s, a.r.pos, a.kind, a.length)
      [] OTHER -> DecErr(Error("InvalidTagId"), pos)

\* visit_seq of the target tgt over an NBTSeqDeserializer
VisitSeq(tgt, s, pos, kind, length) ==
    CASE tgt[1] = "seq" -> SeqLoop(s, pos, kind, length, 0, tgt[2][1], << >>)
      [] tgt[1] = "ignored" ->
            The({ IF r.st = "ok" THEN DecOk(Ignored, r.pos) ELSE r :
                  r \in { SeqLoop(s, pos, kind, length, 0, IgnoredAny, << >>) } })
      [] tgt[1] = "struct" -> StructFromSeq(s, pos, kind, length, 0, tgt[2], << >>)
      [] OTHER -> DecErr(Error("Message"), pos)

\* the loop of a sequence visitor: next_element until Ok(None)
SeqLoop(s, pos, kind, length, current_pos, tgt, acc) ==
    The({ IF ~e.some THEN DecOk(<< "seq", acc >>, e.r.pos)
          ELSE IF e.r.st # "ok" THEN e.r
          ELSE IF e.r.pos = pos /\ length < current_pos THEN DecOverflow(pos)
          ELSE SeqLoop(s, e.r.pos, kind, length, current_pos + 1, tgt, Append(acc, e.r.v)) :
          e \in { next_element_seed(s, pos, kind, length, current_pos, tgt) } })

\* visit_seq of a derived struct: one next_element per field, in order
StructFromSeq(s, pos, kind, length, current_pos, fields, acc) ==
    IF fields = << >> THEN DecOk(<< "struct", acc >>, pos)
    ELSE The({ IF ~e.some THEN DecErr(Error("Message"), pos)
               ELSE IF e.r.st # "ok" THEN e.r
               ELSE StructFromSeq(s, e.r.pos, kind, length, current_pos + 1, Tail(fields),
                                  Append(acc, <<Head(fields)[1], e.r.v>>)) :
               e \in { next_element_seed(s, pos, kind, length, current_pos, Head(fields)[2]) } })

\* visit_map of the target tgt over NBTMapDeserializer::new (kind: None)
VisitMap(tgt, s, pos) ==
    CASE tgt[1] = "struct" -> StructLoop(s, pos, "None", tgt[2], << >>)
      [] tgt[1] = "map" -> MapLoop(s, pos, "None", tgt[2], << >>)
      [] tgt[1] = "ignored" -> IgnoredMapLoop(s, pos, "None")
      [] OTHER -> DecErr(Error("Message"), pos)

\* visit_map of a derived struct: a known field is decoded into its type
\* (a second occurrence is a duplicate-field error), an unknown one into
\* IgnoredAny
StructLoop(s, pos, saved, fields, acc) ==
    The({ IF ~k.some
          THEN IF k.r.st # "ok" THEN k.r
               ELSE LET fin == StructFinish(fields, acc) IN
                    IF fin.ok THEN DecOk(<< "struct", fin.v >>, k.r.pos)
                    ELSE DecErr(Error("Message"), k.r.pos)
          ELSE IF k.r.st # "ok" THEN k.r
          ELSE LET name == k.r.v[2]
                   i == FieldIndex(fields, name)
               IN  IF i # 0 /\ FieldIndex(acc, name) # 0
                   THEN DecErr(Error("Message"), k.r.pos)
                   ELSE The({ IF r.st # "ok" THEN r
                              ELSE StructLoop(s, r.pos, k.saved, fields,
                                              IF i = 0 THEN acc
                                              ELSE Append(acc, <<name, r.v>>)) :
                              r \in { next_value_seed(s, k.r.pos, k.saved,
                                                      IF i = 0 THEN IgnoredAny
                                                      ELSE fields[i][2]) } }) :
          k \in { next_key_seed(s, pos, saved, Target("str")) } })

\* visit_map of a map target: kv is <<key target, value target>>
MapLoop(s, pos, saved, kv, acc) ==
    The({ IF ~k.some
          THEN IF k.r.st # "ok" THEN k.r ELSE DecOk(<< "map", acc >>, k.r.pos)
          ELSE IF k.r.st # "ok" THEN k.r
          ELSE The({ IF r.st # "ok" THEN r
                     ELSE MapLoop(s, r.pos, k.saved, kv, MapInsert(acc, k.r.v, r.v)) :
                     r \in { next_value_seed(s, k.r.pos, k.saved, kv[2]) } }) :
          k \in { next_key_seed(s, pos, saved, kv[1]) } })

\* visit_map of IgnoredAny
IgnoredMapLoop(s, pos, saved) ==
    The({ IF ~k.some
          THEN IF k.r.st # "ok" THEN k.r ELSE DecOk(Ignored, k.r.pos)
          ELSE IF k.r.st # "ok" THEN k.r
          ELSE The({ IF r.st # "ok" THEN r ELSE IgnoredMapLoop(s, r.pos, k.saved) :
                     r \in { next_value_seed(s, k.r.pos, k.saved, IgnoredAny) } }) :
          k \in { next_key_seed(s, pos, saved, IgnoredAny) } })

\* impl Deserializer for &mut NBTDeserializer: deserialize_map
deserialize_map(s, tgt) ==
    LET kind == parse_kind(s, 0) IN
    IF kind.st # "ok" THEN DecFail(kind)
    ELSE IF kind.x = "Compound"
    THEN LET name == parse_string(s, kind.pos) IN
         IF name.st # "ok" THEN DecFail(name) ELSE VisitMap(tgt, s, name.pos)
    ELSE DecErr(Error("ExpectedRootCompound"), kind.pos)

\* from_slice: T::deserialize(&mut NBTDeserializer) for the target tgt
RECURSIVE from_slice(_, _)
from_slice(s, tgt) ==
    CASE tgt[1] \in {"struct", "map"} -> deserialize_map(s, tgt)
      [] tgt[1] = "unit_struct" -> DecOk(<< "unit_struct", << >> >>, 0)
      [] tgt[1] = "newtype" ->
            LET r == from_slice(s, tgt[2][1]) IN
            IF r.st = "ok" THEN DecOk(<< "newtype", << r.v >> >>, r.pos) ELSE r
      [] OTHER -> DecErr(Error("ExpectedRootCompound"), 0)


(***************************************************************************)
(* Inputs: the typed values handed to to_bytes and the byte streams and    *)
(* targets handed to from_slice.                                           *)
(***************************************************************************)
Val(t, v) == << t, v >>
Struct(fields) == << "struct", fields >>

\* the sequences over S of length lo..hi, as tuples
RECURSIVE SeqsOf(_, _, _)
SeqsOf(S, lo, hi) ==
    IF hi = 0 THEN { << >> }
    ELSE LET shorter == SeqsOf(S, 0, hi - 1) IN
         { q \in shorter \cup { Append(p, x) : p \in { r \in shorter : Len(r) = hi - 1 }, x \in S } :
             Len(q) >= lo }

Ints == -MaxInt .. MaxInt

\* "a", "b", "hi", U+00E9
NameA == << 97 >>
NameB == << 98 >>
Strings == { << >>, NameA, << 104, 105 >>, << 195, 169 >> }

I8Values == { Val("i8", n) : n \in Ints \cup {-128, 127} }
I16Values == { Val("i16", n) : n \in Ints \cup {-32768, 32767, 256} }
I32Values == { Val("i32", n) : n \in Ints \cup {-2147483647 - 1, 2147483647, 65536} }
I64Values == { Val("i64", SignExtend(n)) : n \in Ints } \cup { Val("i64", <<1, 0>>), Val("i64", <<-2, 5>>) }
BoolValues == { Val("bool", b) : b \in BOOLEAN }
StrValues == { Val("str", x) : x \in Strings }
\* the bit patterns of 0.0, 1.0, a NaN and -0.0
F32Values == { Val("f32", n) : n \in {0, 1065353216, 2143289344, -2147483647 - 1} }
F64Values ==
    { Val("f64", l) : l \in { <<0, 0>>, <<1072693248, 0>>, <<2146959360, 0>>,
                              <<-2147483647 - 1, 0>> } }

Scalars ==
    I8Values \cup I16Values \cup I32Values \cup I64Values \cup BoolValues \cup StrValues
    \cup F32Values \cup F64Values

\* the elements sequences and arrays are made of
ElemI8 == { Val("i8", n) : n \in {1, -1} }
ElemI32 == { Val("i32", n) : n \in {1, 2, 3} }
ElemI64 == { Val("i64", SignExtend(n)) : n \in {1, -2} }
ElemStr == { Val("str", x) : x \in {NameA, << 104, 105 >>} }

Inner == Struct(<< <<NameA, Val("i8", 1)>>, <<NameB, Val("str", << 104, 105 >>)>> >>)

SeqValues ==
    { Val("seq", q) : q \in SeqsOf(ElemI8, 0, MaxLen) \cup SeqsOf(ElemI32, 1, MaxLen)
                           \cup SeqsOf(ElemStr, 1, 2) \cup SeqsOf({Inner}, 1, 2) }

ArrayValues ==
    { Val("byte_array", q) : q \in SeqsOf(ElemI8, 0, MaxLen) }
    \cup { Val("int_array", q) : q \in SeqsOf(ElemI32, 0, MaxLen) }
    \cup { Val("long_array", q) : q \in SeqsOf(ElemI64, 0, MaxLen) }

MapValues ==
    { Val("map", << >>),
      Val("map", << <<Val("str", NameA), Val("i8", 1)>> >>),
      Val("map", << <<Val("str", NameA), Val("i8", 1)>>, <<Val("str", NameB), Val("i8", -1)>> >>) }

OtherValues ==
    { Inner, Struct(<< >>), Val("none", << >>), Val("some", << Val("i8", 1) >>),
      Val("unit_struct", << >>), Val("unit", << >>), Val("u8", 1) }

\* annotated collections whose size hint (length, max_length) need not be
\* the number of elements they yield
IterValues ==
    { Val("array_iter", << "byte_array", length, max_length, q >>) :
        length \in 0 .. 2, max_length \in {NoMax} \cup 0 .. 2, q \in SeqsOf(ElemI8, 0, MaxLen) }

\* the shapes serde has and the wire format has not: unsigned integers,
\* char, bytes, unit, enum variants, tuple structs; and tuples
UnsignedValues == { Val(u, 1) : u \in {"u8", "u16", "u32", "u64"} } \cup { Val("char", 97) }
VariantValues ==
    { Val("unit_variant", << >>), Val("struct_variant", << >>),
      Val("newtype_variant", << Val("i8", 1) >>),
      Val("newtype_variant", << Val("str", NameA) >>),
      Val("tuple_variant", << Val("i8", 1) >>),
      Val("tuple_variant", << Val("i8", 1), Val("i8", -1) >>) }
ShapeValues ==
    UnsignedValues \cup VariantValues
    \cup { Val("bytes", << 1, 2 >>), Val("unit", << >>), Val("tuple_struct", << Val("i8", 1) >>),
           Val("tuple", << Val("i8", 1), Val("i8", -1) >>) }

\* sequences that report no length up front (serialize_seq(None)), as
\* collect_seq over an iterator without an exact size hint does
UnsizedValues == { Val("seq_unsized", q) : q \in SeqsOf(ElemI8, 0, 2) }

FieldValues ==
    Scalars \cup SeqValues \cup ArrayValues \cup MapValues \cup OtherValues
    \cup IterValues \cup ShapeValues \cup UnsizedValues


\* the record of the encoder's test: Servers { servers: vec![Server { ip, name }] }
StrServers == << 115, 101, 114, 118, 101, 114, 115 >>
StrIp == << 105, 112 >>
StrName == << 110, 97, 109, 101 >>
StrLoucas == << 108, 111, 117, 99, 97, 115, 107, 114, 101, 103, 101, 114, 46, 99, 111, 109 >>
StrMinecraft == << 77, 105, 110, 101, 99, 114, 97, 102, 116, 32, 83, 101, 114, 118, 101, 114 >>

Server == Struct(<< <<StrIp, Val("str", StrLoucas)>>, <<StrName, Val("str", StrMinecraft)>> >>)
Servers == Struct(<< <<StrServers, Val("seq", << Server >>)>> >>)

Trailing == { Val("i8", 1), Val("str", << 104, 105 >>) }

\* the strings handed to Writer::write_string on its own: short ones and
\* strings of u16::MAX, u16::MAX + 1 and u16::MAX + 2 bytes
LongString(n) == [i \in 1 .. n |-> 97]
WriteStrings == Strings \cup { StrLoucas } \cup { LongString(n) : n \in 65535 .. 65537 }

\* records and lists nested d deep, d = 1 being a record of one i8 and a
\* record of one Vec<i8>
RECURSIVE NestedRecord(_)
NestedRecord(d) ==
    IF d <= 1 THEN Struct(<< <<NameA, Val("i8", 1)>> >>)
    ELSE Struct(<< <<NameA, NestedRecord(d - 1)>> >>)
RECURSIVE NestedList(_)
NestedList(d) == IF d <= 1 THEN Val("i8", 1) ELSE Val("seq", << NestedList(d - 1) >>)
NestedValues ==
    { NestedRecord(d) : d \in 1 .. MaxDepth }
    \cup { Struct(<< <<NameA, NestedList(d)>> >>) : d \in 2 .. MaxDepth }

RootValues ==
    { Struct(<< <<NameA, x>> >>) : x \in FieldValues }
    \cup NestedValues
    \cup { Struct(<< <<NameA, x>>, <<NameB, y>> >>) : x \in FieldValues, y \in Trailing }
    \cup { Servers, Struct(<< >>) }
    \cup MapValues
    \cup { Val("newtype", << Inner >>) }
    \cup Scalars \cup ShapeValues
    \cup { Val("seq", << >>), Val("seq", << Val("i8", 1) >>), Val("none", << >>),
           Val("some", << Inner >>), Val("unit_struct", << >>),
           Val("byte_array", << Val("i8", 1) >>) }

\* the target type of a typed value: what from_slice is asked for to get it back
RECURSIVE TargetOf(_)
RECURSIVE TargetsOfFields(_)
TargetOf(value) ==
    CASE value[1] \in {"seq", "seq_unsized", "byte_array", "int_array", "long_array"} ->
            << "seq", << IF value[2] = << >> THEN Target("i8") ELSE TargetOf(value[2][1]) >> >>
      [] value[1] = "array_iter" ->
            << "seq", << IF value[2][4] = << >> THEN Target("i8")
                         ELSE TargetOf(value[2][4][1]) >> >>
      [] value[1] = "struct" -> << "struct", TargetsOfFields(value[2]) >>
      [] value[1] = "map" ->
            << "map", << Target("str"),
                                   IF value[2] = << >> THEN Target("i8") ELSE TargetOf(value[2][1][2]) >> >>
      [] value[1] = "none" -> << "option", << Target("i8") >> >>
      [] value[1] = "some" -> << "option", << TargetOf(value[2][1]) >> >>
      [] value[1] = "newtype" -> << "newtype", << TargetOf(value[2][1]) >> >>
      [] OTHER -> Target(value[1])

TargetsOfFields(fields) ==
    IF fields = << >> THEN << >>
    ELSE << <<Head(fields)[1], TargetOf(Head(fields)[2])>> >> \o TargetsOfFields(Tail(fields))

\* a typed value as the decoder builds it: an annotated array is a plain Vec
RECURSIVE Plain(_)
RECURSIVE PlainFields(_)
Plain(value) ==
    CASE value[1] \in {"byte_array", "int_array", "long_array"} -> Val("seq", value[2])
      [] value[1] = "struct" -> Struct(PlainFields(value[2]))
      [] value[1] \in {"some", "newtype"} -> Val(value[1], << Plain(value[2][1]) >>)
      [] OTHER -> value

PlainFields(fields) ==
    IF fields = << >> THEN << >>
    ELSE << <<Head(fields)[1], Plain(Head(fields)[2])>> >> \o PlainFields(Tail(fields))

(***************************************************************************)
(* Byte streams built by hand for from_slice.                              *)
(***************************************************************************)
U8 == 0 .. 255

\* a Compound entry: kind byte, name, payload
Entry(b, name, payload) == << b >> \o StringBytes(name) \o payload
\* a root Compound with an empty name around the entries
Root(entries) == << 10, 0, 0 >> \o entries \o << 0 >>

RECURSIVE Concat(_)
Concat(seqs) == IF seqs = << >> THEN << >> ELSE Head(seqs) \o Concat(Tail(seqs))

\* the raw big-endian bytes of the elements of an annotated array
RECURSIVE RawElements(_)
RawElements(elems) ==
    IF elems = << >> THEN << >>
    ELSE (CASE Head(elems)[1] = "i8" -> << U8OfI8(Head(elems)[2]) >>
            [] Head(elems)[1] = "i32" -> BE32(Head(elems)[2])
            [] Head(elems)[1] = "i64" -> BE64(Head(elems)[2]))
         \o RawElements(Tail(elems))

\* the entries of a map with String keys, as (name, value) fields
MapFields(entries) == [i \in 1 .. Len(entries) |-> << entries[i][1][2], entries[i][2] >>]

\* the kind byte and the payload the wire format gives a typed value
RECURSIVE WireKind(_)
RECURSIVE WirePayload(_)
RECURSIVE WirePayloads(_)
RECURSIVE WireEntries(_)
WireKind(v) ==
    CASE v[1] \in {"i8", "bool"} -> 1
      [] v[1] = "i16" -> 2
      [] v[1] = "i32" -> 3
      [] v[1] = "i64" -> 4
      [] v[1] = "f32" -> 5
      [] v[1] = "f64" -> 6
      [] v[1] = "byte_array" -> 7
      [] v[1] = "str" -> 8
      [] v[1] = "seq" -> 9
      [] v[1] \in {"struct", "map"} -> 10
      [] v[1] = "int_array" -> 11
      [] v[1] = "long_array" -> 12
      [] OTHER -> 0

WirePayload(v) ==
    CASE v[1] = "i8" -> << U8OfI8(v[2]) >>
      [] v[1] = "bool" -> << BoolAsI8(v[2]) >>
      [] v[1] = "i16" -> BE16(v[2])
      [] v[1] \in {"i32", "f32"} -> BE32(v[2])
      [] v[1] \in {"i64", "f64"} -> BE64(v[2])
      [] v[1] = "str" -> StringBytes(v[2])
      [] v[1] = "seq" ->
            << IF v[2] = << >> THEN 0 ELSE WireKind(v[2][1]) >>
            \o BE32(Len(v[2])) \o WirePayloads(v[2])
      [] v[1] \in {"byte_array", "int_array", "long_array"} ->
            BE32(Len(v[2])) \o RawElements(v[2])
      [] v[1] = "struct" -> WireEntries(v[2]) \o << 0 >>
      [] v[1] = "map" -> WireEntries(MapFields(v[2])) \o << 0 >>
      [] OTHER -> << >>

WirePayloads(elems) ==
    IF elems = << >> THEN << >>
    ELSE WirePayload(Head(elems)) \o WirePayloads(Tail(elems))

WireEntries(fields) ==
    IF fields = << >> THEN << >>
    ELSE Entry(WireKind(Head(fields)[2]), Head(fields)[1], WirePayload(Head(fields)[2]))
         \o WireEntries(Tail(fields))

\* the stream of a record: the root Compound with an empty name
WireStream(v) == << 10, 0, 0 >> \o WirePayload(v)

RecordOf(tgt) == << "struct", << <<NameA, tgt>> >> >>
RecordOf2(ta, tb) == << "struct", << <<NameA, ta>>, <<NameB, tb>> >> >>
VecOf(tgt) == << "seq", << tgt >> >>

\* one byte b where the root kind is read, then three more bytes
KindAtRoot(b) == << b, 0, 0, 0 >>
\* one byte b where the kind of a Compound entry is read, then eight bytes
KindAtEntry(b) == Root(Entry(b, NameA, << 0, 0, 0, 0, 0, 0, 0, 0 >>))
\* a List entry "a" with element kind byte b and the given count and element
\* bytes, followed by the Byte entry "b" = 1
ListStream(b, count, elems) ==
    Root(Entry(9, NameA, << b >> \o BE32(count) \o elems) \o Entry(1, NameB, << 1 >>))
\* one entry "a" of kind byte k whose payload is the single byte b
BoolStream(k, b) == Root(Entry(k, NameA, << b >>))

ArrayElemBytes(kind, n) ==
    CASE kind = "ByteArray" -> << U8OfI8(n) >>
      [] kind = "IntArray" -> BE32(n)
      [] kind = "LongArray" -> BE64(SignExtend(n))

RECURSIVE ArrayElems(_, _)
ArrayElems(kind, ns) ==
    IF ns = << >> THEN << >>
    ELSE ArrayElemBytes(kind, Head(ns)) \o ArrayElems(kind, Tail(ns))

\* an array entry "a" of the given array kind with the elements ns, followed
\* by the Byte entry "b" = 1
ArrayStream(kind, ns) ==
    Root(Entry(header_byte(kind), NameA, BE32(Len(ns)) \o ArrayElems(kind, ns))
         \o Entry(1, NameB, << 1 >>))

ArrayKinds == {"ByteArray", "IntArray", "LongArray"}
ArrayElemTarget(kind) ==
    CASE kind = "ByteArray" -> Target("i8")
      [] kind = "IntArray" -> Target("i32")
      [] kind = "LongArray" -> Target("i64")

ArrayContents == SeqsOf({1, 2, 3, -1}, 0, MaxLen)
NonPositive == -MaxInt .. 0

RootTargets == { RecordOf(Target("i8")), << "map", << Target("str"), Target("i8") >> >> }
ListTargets ==
    { RecordOf2(VecOf(Target("i8")), Target("i8")), RecordOf2(VecOf(Target("str")), Target("i8")),
      RecordOf2(VecOf(IgnoredAny), Target("i8")), << "struct", << <<NameB, Target("i8")>> >> >> }

\* byte strings that are not UTF-8: a stray 0xFF, a lead byte without its
\* continuation, a stray continuation byte, an encoded surrogate
InvalidUtf8 == { << 255 >>, << 195, 40 >>, << 128 >>, << 237, 160, 128 >> }

\* a stream with the bytes x as the root name, as the name of a Byte entry
\* and as the payload of the String entry "a"
InvalidUtf8Streams ==
    { << 10 >> \o StringBytes(x) \o << 0 >> : x \in InvalidUtf8 }
    \cup { Root(Entry(1, x, << 5 >>)) : x \in InvalidUtf8 }
    \cup { Root(Entry(8, NameA, StringBytes(x))) : x \in InvalidUtf8 }

Utf8Targets ==
    { RecordOf(Target("str")), RecordOf(IgnoredAny), << "struct", << >> >>,
      << "map", << Target("str"), Target("str") >> >> }

\* targets asked of an entry of every kind
MismatchTargets == { Target("i8"), Target("str"), VecOf(Target("i8")) }

\* the records whose streams are cut short, and the types asked for: the
\* type of the record, a record that ignores every entry, a map, a record
\* with a unit field, a unit struct
PrefixValues ==
    { Struct(<< <<NameA, x>> >>) : x \in Scalars \cup SeqValues \cup ArrayValues \cup { Inner } }
    \cup { Servers, Struct(<< >>),
           Struct(<< <<NameA, Val("i8", 0)>>, <<NameB, Val("str", << 104, 105 >>)>> >>) }

PrefixTargets(v) ==
    { TargetOf(v), << "struct", << >> >>, << "map", << Target("str"), Target("i8") >> >>,
      RecordOf(Target("unit")), Target("unit_struct") }

\* the record { a: 1i8, b: "hi" } with one more entry "x" that its type has
\* no field for, before, between or after its two entries
NameX == << 120 >>
IgnoreBase == Struct(<< <<NameA, Val("i8", 1)>>, <<NameB, Val("str", << 104, 105 >>)>> >>)
IgnoredValues ==
    Scalars \cup SeqValues \cup ArrayValues \cup MapValues
    \cup { Inner, Struct(<< >>), Servers, NestedRecord(2), NestedList(3) }
IgnoreStream(x, k) ==
    Root(WireEntries(SubSeq(IgnoreBase[2], 1, k))
         \o Entry(WireKind(x), NameX, WirePayload(x))
         \o WireEntries(SubSeq(IgnoreBase[2], k + 1, 2)))
IgnoreInputs ==
    { << IgnoreStream(x, k), TargetOf(IgnoreBase) >> : x \in IgnoredValues, k \in 0 .. 2 }

EncodingInputs ==
    UNION { { << WireStream(v), tgt >> : tgt \in PrefixTargets(v) } : v \in PrefixValues }

DecodeInputs ==
    { << KindAtRoot(b), tgt >> : b \in U8, tgt \in RootTargets }
    \cup { << s, RecordOf(Target("i8")) >> : s \in { << >>, << 10 >>, << 10, 0 >>, << 3, 0, 1 >> } }
    \cup { << KindAtRoot(10), tgt >> : tgt \in { Target("i8"), VecOf(Target("i8")), Target("unit_struct") } }
    \cup { << KindAtEntry(b), tgt >> : b \in U8, tgt \in { RecordOf(Target("i64")), RecordOf(IgnoredAny) } }
    \cup { << KindAtEntry(b), RecordOf(tgt) >> : b \in 0 .. 12, tgt \in MismatchTargets }
    \cup { << s, tgt >> : s \in InvalidUtf8Streams, tgt \in Utf8Targets }
    \cup { << ListStream(b, count, << >>), tgt >> : b \in U8, count \in NonPositive, tgt \in ListTargets }
    \cup { << ListStream(1, Len(elems), elems), tgt >> : elems \in SeqsOf({1, 255}, 1, MaxLen), tgt \in ListTargets }
    \cup { << BoolStream(1, b), RecordOf(Target("bool")) >> : b \in U8 }
    \cup { << BoolStream(k, b), RecordOf(Target("bool")) >> : k \in 2 .. 12, b \in {0, 1, 2} }
    \cup { << ArrayStream(kind, ns), RecordOf2(VecOf(et), Target("i8")) >> :
             kind \in ArrayKinds, ns \in ArrayContents, et \in { Target("i8"), Target("i32"), Target("i64") } }
    \cup IgnoreInputs

\* the records whose decoding is followed call by call, and the types asked
\* for: the type of the record, a record that ignores every entry, maps
\* with String and with i8 keys
StepFields == Scalars \cup SeqValues \cup ArrayValues \cup { Inner }
StepValues ==
    { Struct(<< <<NameA, x>>, <<NameB, y>> >>) : x \in StepFields, y \in Trailing }
    \cup { Struct(<< >>), Servers }
StepTargets(v) ==
    { TargetOf(v), << "struct", << >> >>, << "map", << Target("str"), Target("i8") >> >>,
      << "map", << Target("i8"), Target("i8") >> >>, << "map", << IgnoredAny, IgnoredAny >> >> }

\* lists asked for as Vec<()>, Vec<i8> and ignored
UnitListTargets ==
    { RecordOf2(VecOf(Target("unit")), Target("i8")), RecordOf2(VecOf(Target("i8")), Target("i8")),
      << "struct", << <<NameB, Target("i8")>> >> >> }

StepInputs ==
    UNION { { << WireStream(v), tgt >> : tgt \in StepTargets(v) } : v \in StepValues }
    \cup { << ListStream(b, count, << >>), tgt >> :
             b \in {0, 1, 13}, count \in -MaxInt .. MaxInt, tgt \in UnitListTargets }
    \cup { << ListStream(1, Len(elems), elems), tgt >> :
             elems \in SeqsOf({1, 255}, 1, MaxLen), tgt \in UnitListTargets }
    \cup { << KindAtEntry(b), tgt >> : b \in 0 .. 13,
             tgt \in { RecordOf(Target("i64")), RecordOf(IgnoredAny) } }
    \cup { << s, tgt >> : s \in InvalidUtf8Streams, tgt \in Utf8Targets }
    \cup { << SubSeq(WireStream(Servers), 1, n), TargetOf(Servers) >> :
             n \in 0 .. Len(WireStream(Servers)) - 1 }
    \cup { << Root(Entry(1, NameA, << 1 >>) \o Entry(1, NameA, << 2 >>)), RecordOf(Target("i8")) >> }

(***************************************************************************)
(* The state machine: a caller makes one call of the codec at a time.      *)
(*   op      the call that has returned ("idle" before a call)             *)
(*   value   the argument of to_bytes                                      *)
(*   enc     how to_bytes ended: st, err, the Writer calls, the Vec<u8>    *)
(*   stream  the argument of from_slice                                    *)
(*   target  the type from_slice is asked for                              *)
(*   dec     how from_slice ended: st, err, the value, the bytes consumed  *)
(*   wrote   what write_string put in the sink: the byte length of its     *)
(*           string, the two bytes written first, the number of bytes      *)
(*           written after them and whether those are the string's bytes   *)
(*   access  where a from_slice that is followed call by call stands: the  *)
(*           reader position and the NBTMapDeserializer and                *)
(*           NBTSeqDeserializer the visitor is calling                     *)
(***************************************************************************)
VARIABLES op, value, enc, stream, target, dec, wrote, access

vars == << op, value, enc, stream, target, dec, wrote, access >>

NoEnc == [st |-> "none", err |-> "None", calls |-> << >>, out |-> << >>]
NoDec == [st |-> "none", err |-> NoError, v |-> Unit, pos |-> 0]
NoWrote == [len |-> 0, prefix |-> << 0, 0 >>, rest |-> 0, same |-> TRUE]

\* no from_slice is being followed
NoAccess ==
    [pos |-> 0, pc |-> "none", kind |-> "None", entry |-> 0, key |-> Unit, kinds |-> << >>,
     acc |-> << >>, seq |-> [kind |-> "End", length |-> 0, current_pos |-> 0], elems |-> << >>]

\* the bytes of a Writer::write_string call, summed up
Wrote(s, bytes) ==
    [len |-> Len(s), prefix |-> SubSeq(bytes, 1, 2), rest |-> Len(bytes) - 2,
     same |-> SubSeq(bytes, 3, Len(bytes)) = s]

Init ==
    /\ op = "idle"
    /\ value = Unit
    /\ enc = NoEnc
    /\ stream = << >>
    /\ target = Target("unit")
    /\ dec = NoDec
    /\ wrote = NoWrote
    /\ access = NoAccess

\* to_bytes(&value)
ToBytes ==
    /\ op = "idle"
    /\ \E v \in RootValues :
          /\ value' = v
          /\ enc' = to_bytes(v)
    /\ op' = "to_bytes"
    /\ UNCHANGED << stream, target, dec, wrote, access >>

\* from_slice(bytes) on the bytes to_bytes has just returned, asking for the
\* type of the value that was encoded
RoundTrip ==
    /\ op = "to_bytes"
    /\ enc.st = "ok"
    /\ stream' = enc.out
    /\ target' = TargetOf(value)
    /\ dec' = from_slice(enc.out, TargetOf(value))
    /\ op' = "round_trip"
    /\ UNCHANGED << value, enc, wrote, access >>

\* from_slice(bytes) on a stream from elsewhere
FromSlice ==
    /\ op = "idle"
    /\ \E in \in DecodeInputs :
          /\ stream' = in[1]
          /\ target' = in[2]
          /\ dec' = from_slice(in[1], in[2])
    /\ op' = "from_slice"
    /\ UNCHANGED << value, enc, wrote, access >>

\* whether the stream s is an encoding of a value of the type tgt:
\* from_slice gives a value and has read all of s
IsEncodingOf(s, tgt) ==
    \E r \in { from_slice(s, tgt) } : r.st = "ok" /\ r.pos = Len(s)

\* from_slice(bytes) on a proper prefix of the encoding of a value of the
\* type asked for
FromPrefix ==
    /\ op = "idle"
    /\ \E in \in EncodingInputs :
          /\ IsEncodingOf(in[1], in[2])
          /\ \E n \in 0 .. Len(in[1]) - 1 :
                /\ stream' = SubSeq(in[1], 1, n)
                /\ target' = in[2]
                /\ dec' = from_slice(SubSeq(in[1], 1, n), in[2])
    /\ op' = "from_prefix"
    /\ UNCHANGED << value, enc, wrote, access >>

\* Writer::write_string(string) on a Writer over an empty Vec<u8>
WriteString ==
    /\ op = "idle"
    /\ \E s \in WriteStrings : wrote' = Wrote(s, WriterBytes(write_string(s)))
    /\ op' = "write_string"
    /\ UNCHANGED << value, enc, stream, target, dec, access >>

\* the caller drops the results; nothing of a call outlives it
Return ==
    /\ op # "idle"
    /\ op' = "idle"
    /\ value' = Unit
    /\ enc' = NoEnc
    /\ stream' = << >>
    /\ target' = Target("unit")
    /\ dec' = NoDec
    /\ wrote' = NoWrote
    /\ access' = NoAccess

Next == ToBytes \/ RoundTrip \/ FromSlice \/ FromPrefix \/ WriteString \/ Return

Spec == Init /\ [][Next]_vars


(***************************************************************************)
(* from_slice followed call by call: the root deserialize_map, then the    *)
(* next_key_seed and next_value_seed calls the root visitor makes on the   *)
(* NBTMapDeserializer, and the next_element_seed calls the visitor of a    *)
(* list or array entry makes on the NBTSeqDeserializer.  The fields of     *)
(* access:                                                                 *)
(*   pos     the bytes the reader has consumed                             *)
(*   pc      the call the visitor makes next: "key", "value", "element"    *)
(*   kind    NBTMapDeserializer.kind ("None" for None)                     *)
(*   entry   where the kind byte of the entry in hand was read             *)
(*   key     what the last next_key_seed returned                          *)
(*   kinds   the kinds saved so far, one per entry                         *)
(*   acc     the entries the root visitor has kept                         *)
(*   seq     NBTSeqDeserializer: kind, length, current_pos                 *)
(*   elems   the elements the sequence visitor has got                     *)
(***************************************************************************)
\* the seeds the visitor of the target tgt hands to the accessors
KeyTarget(tgt) ==
    CASE tgt[1] = "struct" -> Target("str")
      [] tgt[1] = "map" -> tgt[2][1]
      [] OTHER -> IgnoredAny

ValueTarget(tgt, key) ==
    CASE tgt[1] = "struct" ->
            LET i == FieldIndex(tgt[2], key[2]) IN
            IF i = 0 THEN IgnoredAny ELSE tgt[2][i][2]
      [] tgt[1] = "map" -> tgt[2][2]
      [] OTHER -> IgnoredAny

ElementTarget(tgt) == IF tgt[1] = "seq" THEN tgt[2][1] ELSE IgnoredAny

\* what the visitor of tgt keeps of an entry it was given
Got(tgt, acc, key, v) ==
    CASE tgt[1] = "struct" ->
            IF FieldIndex(tgt[2], key[2]) = 0 THEN acc ELSE Append(acc, << key[2], v >>)
      [] tgt[1] = "map" -> MapInsert(acc, key, v)
      [] OTHER -> acc

\* what the visitor of tgt returns when next_key_seed has returned Ok(None)
Finish(tgt, acc, pos) ==
    CASE tgt[1] = "struct" ->
            LET fin == StructFinish(tgt[2], acc) IN
            IF fin.ok THEN DecOk(<< "struct", fin.v >>, pos)
            ELSE DecErr(Error("Message"), pos)
      [] tgt[1] = "map" -> DecOk(<< "map", acc >>, pos)
      [] OTHER -> DecOk(Ignored, pos)

\* the kinds deserialize_any hands to visit_seq, and the element kind
\* from_array is given
IsSeqKind(kind) == kind \in {"List", "ByteArray", "IntArray", "LongArray"}
ArrayElementKind(kind) ==
    CASE kind = "ByteArray" -> "Byte"
      [] kind = "IntArray" -> "Int"
      [] OTHER -> "Long"

\* from_slice goes on with the accessors in the state a
Going(a) ==
    /\ op' = "decoding"
    /\ access' = a
    /\ dec' = NoDec

\* from_slice is over with the result r
Ended(r, pc) ==
    /\ op' = "ended"
    /\ access' = [access EXCEPT !.pos = r.pos, !.pc = pc]
    /\ dec' = r

\* from_slice(stream) is called for the type target
StepInit ==
    /\ op = "idle"
    /\ value = Unit
    /\ enc = NoEnc
    /\ \E in \in StepInputs :
          /\ stream = in[1]
          /\ target = in[2]
    /\ dec = NoDec
    /\ wrote = NoWrote
    /\ access = NoAccess

\* impl Deserializer for &mut NBTDeserializer: deserialize_map up to its
\* visitor.visit_map(NBTMapDeserializer::new(self))
DeserializeMap ==
    /\ op = "idle"
    /\ LET kind == parse_kind(stream, 0)
           name == parse_string(stream, kind.pos)
       IN  IF kind.st # "ok" THEN Ended(DecFail(kind), "none")
           ELSE IF kind.x # "Compound"
           THEN Ended(DecErr(Error("ExpectedRootCompound"), kind.pos), "none")
           ELSE IF name.st # "ok" THEN Ended(DecFail(name), "none")
           ELSE Going([NoAccess EXCEPT !.pos = name.pos, !.pc = "key"])
    /\ UNCHANGED << value, enc, stream, target, wrote >>

\* the visitor calls next_key_seed: Ok(None) ends the visitor, a key of a
\* field the struct has had already is its duplicate-field error
NextKey ==
    /\ op = "decoding"
    /\ access.pc = "key"
    /\ \E k \in { next_key_seed(stream, access.pos, access.kind, KeyTarget(target)) } :
          IF k.r.st # "ok" THEN Ended(k.r, "none")
          ELSE IF ~k.some THEN Ended(Finish(target, access.acc, k.r.pos), "none")
          ELSE IF /\ target[1] = "struct"
                  /\ FieldIndex(target[2], k.r.v[2]) # 0
                  /\ FieldIndex(access.acc, k.r.v[2]) # 0
          THEN Ended(DecErr(Error("Message"), k.r.pos), "none")
          ELSE Going([access EXCEPT !.pos = k.r.pos, !.pc = "value", !.kind = k.saved,
                                    !.entry = access.pos, !.key = k.r.v,
                                    !.kinds = Append(@, k.saved)])
    /\ UNCHANGED << value, enc, stream, target, wrote >>

\* the visitor calls next_value_seed: a list or an array given to a
\* sequence visitor starts its element loop, any other value is decoded
NextValue ==
    /\ op = "decoding"
    /\ access.pc = "value"
    /\ LET tgt == ValueTarget(target, access.key) IN
       IF access.kind = "None" THEN Ended(DecPanic(access.pos), "unreachable")
       ELSE IF IsSeqKind(access.kind) /\ tgt[1] \in {"seq", "ignored"}
       THEN LET a == IF access.kind = "List" THEN from_list(stream, access.pos)
                     ELSE from_array(stream, access.pos, ArrayElementKind(access.kind))
            IN  IF a.r.st # "ok" THEN Ended(a.r, "none")
                ELSE Going([access EXCEPT !.pos = a.r.pos, !.pc = "element",
                                          !.seq = [kind |-> a.kind, length |-> a.length,
                                                   current_pos |-> 0],
                                          !.elems = << >>])
       ELSE \E r \in { next_value_seed(stream, access.pos, access.kind, tgt) } :
               IF r.st # "ok" THEN Ended(r, "none")
               ELSE Going([access EXCEPT !.pos = r.pos, !.pc = "key",
                                         !.acc = Got(target, @, access.key, r.v)])
    /\ UNCHANGED << value, enc, stream, target, wrote >>

\* the sequence visitor calls next_element_seed: Ok(None) ends it and the
\* entry is complete.  An element that read nothing when current_pos is
\* already past length is the same call over and over, until
\* current_pos += 1 overflows the i32.
NextElement ==
    /\ op = "decoding"
    /\ access.pc = "element"
    /\ LET tgt == ValueTarget(target, access.key)
           q == access.seq
       IN  \E e \in { next_element_seed(stream, access.pos, q.kind, q.length, q.current_pos,
                                        ElementTarget(tgt)) } :
              IF ~e.some
              THEN Going([access EXCEPT
                            !.pc = "key",
                            !.acc = Got(target, @, access.key,
                                        IF tgt[1] = "seq" THEN << "seq", access.elems >>
                                        ELSE Ignored)])
              ELSE IF e.r.st # "ok" THEN Ended(e.r, "none")
              ELSE IF e.r.pos = access.pos /\ q.length < q.current_pos /\ q.current_pos > 0
              THEN Ended(DecOverflow(e.r.pos), "none")
              ELSE Going([access EXCEPT !.pos = e.r.pos, !.seq.current_pos = @ + 1,
                                        !.elems = Append(@, e.r.v)])
    /\ UNCHANGED << value, enc, stream, target, wrote >>

StepNext == DeserializeMap \/ NextKey \/ NextValue \/ NextElement

Steps == StepInit /\ [][StepNext]_vars

\* from_slice is a sequential function: its caller runs it to its end
FairSteps == Steps /\ WF_vars(StepNext)


(***************************************************************************)
(* Properties.                                                             *)
(***************************************************************************)

\* the shapes C1 speaks of: a record of i8, i16, i32, i64, bool, String,
\* sequences, nested records and annotated arrays
RECURSIVE InRoundTripScope(_)
RECURSIVE FieldsInRoundTripScope(_)
InRoundTripScope(v) ==
    CASE v[1] \in {"i8", "i16", "i32", "i64", "bool", "str"} -> TRUE
      [] v[1] \in {"seq", "byte_array", "int_array", "long_array"} ->
            \A i \in 1 .. Len(v[2]) : InRoundTripScope(v[2][i])
      [] v[1] = "struct" -> FieldsInRoundTripScope(v[2])
      [] OTHER -> FALSE

FieldsInRoundTripScope(fields) ==
    \A i \in 1 .. Len(fields) : InRoundTripScope(fields[i][2])

\* C1: for every typed value whose root is a record of i8, i16, i32, i64,
\* bool, String, sequences, nested records and annotated arrays,
\* from_slice(to_bytes(v)) succeeds and yields a value equal to v.
C1_RoundTrip ==
    (value[1] = "struct" /\ InRoundTripScope(value))
        => /\ (op = "to_bytes" => enc.st = "ok")
           /\ (op = "round_trip" => dec.st = "ok" /\ dec.v = Plain(value))

\* the bytes of the scenario, piece by piece
ServersBytes ==
    Concat(<< << 10 >>, << 0, 0 >>,
              << 9 >>, << 0, 7 >>, StrServers,
              << 10 >>, << 0, 0, 0, 1 >>,
              << 8 >>, << 0, 2 >>, StrIp, << 0, 16 >>, StrLoucas,
              << 8 >>, << 0, 4 >>, StrName, << 0, 16 >>, StrMinecraft,
              << 0 >>,
              << 0 >> >>)

\* C2: encoding {servers: [{ip: "loucaskreger.com", name: "Minecraft Server"}]}
\* writes the root Compound header, the servers entry header with its name,
\* the List header (element kind Compound, count 1), the two String entries,
\* the nested End and the root End, and from_slice of those bytes gives the
\* value back.
C2_ServersScenario ==
    value = Servers
        => /\ (op = "to_bytes" => enc.st = "ok" /\ enc.out = ServersBytes)
           /\ (op = "round_trip" =>
                 stream = ServersBytes /\ dec.st = "ok" /\ dec.v = Servers
                 /\ dec.pos = Len(ServersBytes))

C2_Witness ==
    op = "round_trip" /\ value = Servers /\ dec.st = "ok" /\ stream = ServersBytes

IsArrayField(v) ==
    /\ v[1] = "struct"
    /\ Len(v[2]) = 1
    /\ v[2][1][2][1] \in {"byte_array", "int_array", "long_array"}

\* C3: a non-empty annotated array of n elements in a record field is
\* written as the array kind byte (7, 11, 12), the field name, the i32 count
\* n and then n raw big-endian elements, with no kind byte before or between
\* the elements.
C3_ArrayIsRaw ==
    (op = "to_bytes" /\ IsArrayField(value) /\ value[2][1][2][2] # << >>)
        => LET field == value[2][1]
               elems == field[2][2]
           IN  /\ enc.st = "ok"
               /\ enc.out = Root(Entry(header_byte(ArrayKind(field[2][1])), field[1],
                                       BE32(Len(elems)) \o RawElements(elems)))

\* a stream made by ListStream: the List entry "a" and its count
IsListStream(s) == Len(s) >= 12 /\ SubSeq(s, 1, 7) = << 10, 0, 0, 9, 0, 1, 97 >>
ListCount(s) == FromBE32(SubSeq(s, 9, 12))
AfterListHeader(s) == SubSeq(s, 13, Len(s)) = Entry(1, NameB, << 1 >>) \o << 0 >>

\* C4: a List whose count is zero or negative decodes to an empty sequence
\* whatever its element kind byte; the decoder reads nothing after the count
\* for it, so the entry after the List is decoded as usual.
C4_NonPositiveListIsEmpty ==
    (op = "from_slice" /\ IsListStream(stream) /\ ListCount(stream) <= 0
       /\ AfterListHeader(stream) /\ target[2][1][2][1] = "seq")
        => /\ dec.st = "ok"
           /\ dec.v = Struct(<< <<NameA, Val("seq", << >>)>>, <<NameB, Val("i8", 1)>> >>)
           /\ dec.pos = Len(stream)

\* the kind byte of a stream made by KindAtRoot, KindAtEntry or ListStream
IsKindAtRoot(s) == Len(s) = 4 /\ SubSeq(s, 2, 4) = << 0, 0, 0 >>
IsKindAtEntry(s) == Len(s) = 16 /\ s = KindAtEntry(s[4])

\* C5: a kind byte of 13..255 makes the decode fail with InvalidTagId, at
\* the root, at a Compound entry and at the element kind of a List.
C5_InvalidTagId ==
    (op = "from_slice"
       /\ \/ IsKindAtRoot(stream) /\ stream[1] >= 13
          \/ IsKindAtEntry(stream) /\ stream[4] >= 13
          \/ IsListStream(stream) /\ stream[8] >= 13)
        => dec.st = "err" /\ dec.err.e = "InvalidTagId"

\* C6: a stream whose first byte is not Compound (10) fails with
\* ExpectedRootCompound, one byte consumed.
C6_ExpectedRootCompound ==
    (op = "from_slice" /\ stream # << >> /\ stream[1] # 10
       /\ target[1] \in {"struct", "map"})
        => dec.st = "err" /\ dec.err.e = "ExpectedRootCompound" /\ dec.pos = 1

\* a stream made by BoolStream, decoded into a record with the bool field "a"
IsBoolDecode ==
    /\ op = "from_slice"
    /\ target = RecordOf(Target("bool"))
    /\ Len(stream) = 9
    /\ stream[4] \in 1 .. 12
    /\ stream = BoolStream(stream[4], stream[8])

\* C7: into a bool, a Byte of 0 is false, a Byte of 1 is true and any other
\* Byte fails with ExpectedBooleanByte carrying that byte; a kind other than
\* Byte fails with MismatchedTag(kind, Byte) and the payload is not consumed.
C7_Bool ==
    IsBoolDecode
        => LET k == stream[4]
               b == stream[8]
           IN  /\ (k = 1 /\ b = 0) =>
                     dec.st = "ok" /\ dec.v = Struct(<< <<NameA, Val("bool", FALSE)>> >>)
               /\ (k = 1 /\ b = 1) =>
                     dec.st = "ok" /\ dec.v = Struct(<< <<NameA, Val("bool", TRUE)>> >>)
               /\ (k = 1 /\ b > 1) =>
                     /\ dec.st = "err"
                     /\ dec.err.e = "ExpectedBooleanByte"
                     /\ dec.err.b \in -128 .. 127
                     /\ dec.err.b % 256 = b
               /\ (k # 1) =>
                     /\ dec.st = "err"
                     /\ dec.err.e = "MismatchedTag"
                     /\ header_byte(dec.err.k1) = k
                     /\ dec.err.k2 = "Byte"
                     /\ dec.pos = 7

C7_Witness ==
    /\ IsBoolDecode
    /\ stream[4] = 1
    /\ stream[8] = 200
    /\ dec.err.e = "ExpectedBooleanByte"

\* a stream made by ArrayStream, decoded into a record whose field "a" is a
\* plain sequence
IsArrayDecode ==
    /\ op = "from_slice"
    /\ Len(stream) >= 11
    /\ SubSeq(stream, 1, 3) = << 10, 0, 0 >>
    /\ stream[4] \in {7, 11, 12}
    /\ SubSeq(stream, 5, 7) = StringBytes(NameA)
    /\ target[1] = "struct"
    /\ target[2][1][2][1] = "seq"

\* C8 as stated: a ByteArray, IntArray or LongArray tag decoded into a plain
\* sequence target fails with an error.
C8_ArrayIntoSeqFails ==
    IsArrayDecode => dec.st = "err"

RECURSIVE TypedElements(_, _)
TypedElements(kind, ns) ==
    IF ns = << >> THEN << >>
    ELSE << (CASE kind = "ByteArray" -> Val("i8", Head(ns))
               [] kind = "IntArray" -> Val("i32", Head(ns))
               [] kind = "LongArray" -> Val("i64", SignExtend(Head(ns)))) >>
         \o TypedElements(kind, Tail(ns))

\* C8 as amended: a ByteArray, IntArray or LongArray tag of n >= 0 elements
\* decoded into a plain sequence of its element type (Vec<i8>, Vec<i32>,
\* Vec<i64>) succeeds and yields the n elements in order.
C8_ArrayIntoSeq ==
    IsArrayDecode
        => \A kind \in ArrayKinds, ns \in ArrayContents :
              (stream = ArrayStream(kind, ns)
                 /\ target = RecordOf2(VecOf(ArrayElemTarget(kind)), Target("i8")))
              => /\ dec.st = "ok"
                 /\ dec.v = Struct(<< <<NameA, Val("seq", TypedElements(kind, ns))>>,
                                      <<NameB, Val("i8", 1)>> >>)
                 /\ dec.pos = Len(stream)

C8_Witness ==
    /\ op = "from_slice"
    /\ stream = ArrayStream("IntArray", << 1, 2, 3 >>)
    /\ target = RecordOf2(VecOf(Target("i32")), Target("i8"))
    /\ dec.st = "ok"

IsEndTerminator(call) == call.by = "end"
IsCompoundHeader(call) == call.c = "write_tag_header" /\ call.kind = "Compound"

\* C9: in a successful encoding every record, struct and map is closed by
\* one End written with no suffix, so there are as many End terminators as
\* Compound kind bytes written as tag headers.
C9_EndPerCompound ==
    (op = "to_bytes" /\ enc.st = "ok")
        => /\ \A i \in 1 .. Len(enc.calls) :
                 IsEndTerminator(enc.calls[i])
                    => enc.calls[i] = [write_tag_header("End", NoHeader) EXCEPT !.by = "end"]
           /\ Cardinality({ i \in 1 .. Len(enc.calls) : IsEndTerminator(enc.calls[i]) })
                = Cardinality({ i \in 1 .. Len(enc.calls) : IsCompoundHeader(enc.calls[i]) })

\* C10: in a successful encoding the kind byte End is never written with a
\* name after it; it is a terminator or the element kind of an empty list.
C10_NoEndEntry ==
    (op = "to_bytes" /\ enc.st = "ok")
        => \A i \in 1 .. Len(enc.calls) :
              (enc.calls[i].c = "write_tag_header" /\ enc.calls[i].kind = "End")
                 => /\ enc.calls[i].dh = NoHeader
                    /\ enc.calls[i].by \in {"end", "serialize_tuple", "serialize_tuple_struct"}

\* a record whose only field is a generic sequence of n >= 1 elements
IsSeqField(v) ==
    /\ v[1] = "struct"
    /\ Len(v[2]) = 1
    /\ v[2][1][2][1] = "seq"
    /\ v[2][1][2][2] # << >>

\* C11: a generic sequence of n >= 1 elements in a record field is written
\* as the List kind byte and the field name, then the element kind byte, the
\* i32 count n once, and the n element payloads with nothing between them.
C11_LengthOnce ==
    (op = "to_bytes" /\ IsSeqField(value))
        => /\ enc.st = "ok"
           /\ enc.out = Root(Entry(9, value[2][1][1], WirePayload(value[2][1][2])))

\* a record whose only field is a primitive scalar
IsScalarField(v) ==
    /\ v[1] = "struct"
    /\ Len(v[2]) = 1
    /\ v[2][1][2][1] \in {"i8", "i16", "i32", "i64", "f32", "f64", "str", "bool"}

\* C12: a primitive scalar in a record field is written as the kind byte of
\* its type (i8 1, i16 2, i32 3, i64 4, f32 5, f64 6, string 8, bool 1), the
\* field name and its big-endian payload, a bool's payload being 0 or 1.
C12_ScalarEncoding ==
    (op = "to_bytes" /\ IsScalarField(value))
        => /\ enc.st = "ok"
           /\ enc.out = Root(Entry(WireKind(value[2][1][2]), value[2][1][1],
                                   WirePayload(value[2][1][2])))

\* a record whose only field is an annotated collection with a size hint
IsIterField(v) ==
    /\ v[1] = "struct"
    /\ Len(v[2]) = 1
    /\ v[2][1][2][1] = "array_iter"

\* C13: an annotated collection whose size hint is not exact, or differs
\* from the number of elements it yields, makes to_bytes fail; when to_bytes
\* succeeds the count written equals the number of elements written.
C13_SizeHintChecked ==
    (op = "to_bytes" /\ IsIterField(value))
        => LET length == value[2][1][2][2][2]
               max_length == value[2][1][2][2][3]
               elems == value[2][1][2][2][4]
           IN  /\ (max_length = NoMax \/ length # max_length \/ Len(elems) # length)
                     => enc.st = "err" /\ enc.out = << >>
               /\ enc.st = "ok"
                     => \A i \in 1 .. Len(enc.calls) :
                           (enc.calls[i].by = "serialize_tuple_struct"
                              /\ enc.calls[i].c = "write_i32")
                           => /\ enc.calls[i].n = Len(elems)
                              /\ enc.calls[i].n =
                                    Cardinality({ j \in 1 .. Len(enc.calls) :
                                                    enc.calls[j].c = "write_i8" })

\* a collection that says it has two elements and yields three: to_bytes
\* fails after the count and two elements went to the sink
C13_Witness ==
    /\ op = "to_bytes"
    /\ IsIterField(value)
    /\ value[2][1][2][2][2] = 2
    /\ value[2][1][2][2][3] = 2
    /\ Len(value[2][1][2][2][4]) = 3
    /\ enc.st = "err"
    /\ enc.err = "Message"
    /\ Cardinality({ j \in 1 .. Len(enc.calls) : enc.calls[j].c = "write_i8" }) = 2

\* the root shapes C14 names: scalars, booleans, strings, sequences, tuples,
\* options, unit and enum variants
RootShapes ==
    {"i8", "i16", "i32", "i64", "f32", "f64", "bool", "str", "seq", "tuple",
     "none", "some", "unit", "unit_variant", "newtype_variant", "tuple_variant",
     "struct_variant"}

\* C14: to_bytes of a value whose root is not a record or a map fails with
\* ExpectedRootCompound and no Writer call is made, so no byte reaches the
\* sink.
C14_RootNotCompound ==
    (op = "to_bytes" /\ value[1] \in RootShapes)
        => enc.st = "err" /\ enc.err = "ExpectedRootCompound" /\ enc.calls = << >>

\* the shapes C15 names: raw bytes, unit, the enum variants that carry data,
\* the unsigned integers and char
UnsupportedShapes ==
    {"bytes", "unit", "newtype_variant", "tuple_variant", "struct_variant",
     "u8", "u16", "u32", "u64", "char"}

\* C15: to_bytes of a record with a field of an unsupported shape fails
\* with Unrepresentable.
C15_Unrepresentable ==
    (op = "to_bytes" /\ value[1] = "struct" /\ Len(value[2]) >= 1
       /\ value[2][1][2][1] \in UnsupportedShapes)
        => enc.st = "err" /\ enc.err = "Unrepresentable"

\* whether a tag of kind byte k can be decoded into the target tgt at all:
\* an integer target takes the integer kinds, a string target the String
\* kind, a sequence target the List and array kinds
Satisfies(k, tgt) ==
    CASE tgt[1] \in {"i8", "i64"} -> k \in 1 .. 4
      [] tgt[1] = "str" -> k = 8
      [] tgt[1] = "seq" -> k \in {7, 9, 11, 12}
      [] OTHER -> TRUE

\* C16: a Compound entry of kind k decoded into a field whose type the kind
\* cannot satisfy (an integer from a String, a sequence from an Int, ...)
\* fails with MismatchedTag whose received kind is k.
C16_MismatchedTag ==
    (op = "from_slice" /\ IsKindAtEntry(stream) /\ stream[4] \in 1 .. 12
       /\ target[1] = "struct" /\ ~Satisfies(stream[4], target[2][1][2]))
        => /\ dec.st = "err"
           /\ dec.err.e = "MismatchedTag"
           /\ header_byte(dec.err.k1) = stream[4]

\* C17: a stream in which a root name, an entry name or a String payload is
\* not valid UTF-8 makes from_slice return an error: no value is produced
\* and the call does not panic.
C17_InvalidUtf8IsError ==
    (op = "from_slice" /\ stream \in InvalidUtf8Streams) => dec.st = "err"

\* C18: write_string writes two bytes that are the big-endian u16 byte
\* length of its string, and after them exactly that many bytes, the bytes
\* of the string.
C18_StringPrefix ==
    op = "write_string"
        => /\ FromBEU16(wrote.prefix) = wrote.rest
           /\ wrote.rest = wrote.len
           /\ wrote.same

\* C19: a to_bytes that fails returns the error and none of the bytes that
\* went to the sink before the failure; a from_slice that fails returns the
\* error (or unwinds) and no value, whatever was built before the failure.
C19_NoPartialResults ==
    /\ (op \in {"to_bytes", "round_trip"} /\ enc.st # "ok") => enc.out = << >>
    /\ (op \in {"from_slice", "round_trip"} /\ dec.st # "ok") => dec.v = Unit

\* to_bytes fails on the second field of a record, after the root header and
\* the first field have been written
C19_Witness ==
    /\ op = "to_bytes"
    /\ value[1] = "struct"
    /\ Len(value[2]) = 2
    /\ enc.st = "err"
    /\ Len(enc.calls) >= 4
    /\ enc.out = << >>

\* C20: from_slice on a proper prefix (the empty one included) of the
\* encoding of a value of the type asked for returns an I/O error, never a
\* value.
C20_TruncatedIsIoError ==
    op = "from_prefix" => dec.st = "err" /\ dec.err.e = "Io"

\* the scenario stream without its last byte, the root End
C20_Witness ==
    /\ op = "from_prefix"
    /\ stream = SubSeq(ServersBytes, 1, Len(ServersBytes) - 1)
    /\ target = TargetOf(Servers)
    /\ dec.st = "err"
    /\ dec.err.e = "Io"
    /\ dec.pos = Len(stream)

\* a record whose only field is a nested record or a map with String keys
IsCompoundField(v) ==
    /\ v[1] = "struct"
    /\ Len(v[2]) = 1
    /\ v[2][1][2][1] \in {"struct", "map"}

\* C21: a nested record or map in a compound entry is written as the kind
\* byte Compound, the entry name, the (kind byte, name, payload) triple of
\* each of its fields or entries in order, and the kind byte End; a map
\* with String keys is written exactly as a struct is.
C21_NestedCompound ==
    (op = "to_bytes" /\ IsCompoundField(value))
        => /\ enc.st = "ok"
           /\ enc.out = Root(Entry(10, value[2][1][1], WirePayload(value[2][1][2])))

\* the kind byte at the reader position i (0 based) of the stream
KindByteAt(i) == stream[i + 1]
\* the length of the name that follows the kind byte at i, and whether the
\* whole name is there and is UTF-8
NameLenAt(i) == FromBEU16(Bytes(stream, i + 1, 2))
HasNameAt(i) ==
    /\ Avail(stream, i + 1, 2)
    /\ Avail(stream, i + 3, NameLenAt(i))
    /\ IsUtf8(Bytes(stream, i + 3, NameLenAt(i)))

\* a next_key_seed call that finds a kind byte
KeyStep ==
    (op = "decoding" /\ access.pc = "key" /\ Avail(stream, access.pos, 1)
        /\ KindByteAt(access.pos) \in 0 .. 12)
    => IF KindByteAt(access.pos) = 0
       THEN op' = "ended" /\ access'.pos = access.pos + 1
       ELSE HasNameAt(access.pos)
            => /\ access'.pos = access.pos + 3 + NameLenAt(access.pos)
               /\ op' = "decoding"
                    => /\ access'.pc = "value"
                       /\ access'.entry = access.pos
                       /\ access'.kind = KindFromU8(KindByteAt(access.pos))

\* the next_value_seed call after it
ValueStep ==
    (op = "decoding" /\ access.pc = "value")
    => \E kind \in { KindFromU8(KindByteAt(access.entry)) } :
       \E tgt \in { ValueTarget(target, access.key) } :
          IF IsSeqKind(kind) /\ tgt[1] \in {"seq", "ignored"}
          THEN op' = "decoding"
                  => /\ access'.pc = "element"
                     /\ access'.seq.kind = IF kind = "List" THEN KindFromU8(KindByteAt(access.pos))
                                           ELSE ArrayElementKind(kind)
          ELSE \E r \in { Deserialize(stream, access.pos, kind, tgt) } :
                  IF r.st = "ok"
                  THEN op' = "decoding" /\ access'.pc = "key" /\ access'.pos = r.pos
                  ELSE op' = "ended" /\ dec' = r

IsEmptySeqField(v) ==
    /\ v[1] = "struct"
    /\ Len(v[2]) >= 1
    /\ v[2][1][2] = Val("seq", << >>)

\* C23: an empty generic sequence in a record field is written as the kind
\* byte List, the field name, the element kind End (0) and the i32 count 0,
\* and nothing else: the next field or the End of the record follows.
C23_EmptySeq ==
    (op = "to_bytes" /\ IsEmptySeqField(value))
        => /\ enc.st = "ok"
           /\ enc.out = Root(Entry(9, value[2][1][1], << 0, 0, 0, 0, 0 >>)
                             \o WireEntries(Tail(value[2])))

C23_Witness ==
    /\ op = "to_bytes"
    /\ IsEmptySeqField(value)
    /\ Len(value[2]) = 2
    /\ enc.st = "ok"
    /\ Len(enc.out) > 12

\* C24: the declared length of an annotated array is checked against the
\* number of elements its iterator yields before any byte of the array goes
\* to the sink: when they differ to_bytes fails and the sink holds the
\* header of the root record and no byte of the array.
C24_ValidatedBeforeWrite ==
    (op = "to_bytes" /\ IsIterField(value)
       /\ Len(value[2][1][2][2][4]) # value[2][1][2][2][2])
        => /\ enc.st = "err"
           /\ SinkBytes(enc.calls) = << 10, 0, 0 >>

\* how deep the compounds and lists of a typed value are nested
RECURSIVE Depth(_)
RECURSIVE MaxDepthOf(_)
Depth(v) ==
    CASE v[1] = "struct" -> 1 + MaxDepthOf([i \in 1 .. Len(v[2]) |-> v[2][i][2]])
      [] v[1] = "seq" -> 1 + MaxDepthOf(v[2])
      [] OTHER -> 0
MaxDepthOf(vs) ==
    IF vs = << >> THEN 0
    ELSE LET d == Depth(Head(vs))
             rest == MaxDepthOf(Tail(vs))
         IN  IF d > rest THEN d ELSE rest

\* C25: the recursion over nested compounds and lists is bounded by a depth
\* counter: a tree nested deeper than the limit is refused with a
\* MaxDepthExceeded error by the encoder and by the decoder.  Stated for a
\* limit below MaxDepth, the deepest nesting the inputs have.
C25_DepthBounded ==
    Depth(value) >= MaxDepth
        => /\ op = "to_bytes" => (enc.st = "err" /\ enc.err = "MaxDepthExceeded")
           /\ op = "round_trip" => (dec.st = "err" /\ dec.err.e = "MaxDepthExceeded")

\* a record whose only field is a generic sequence of i8, with or without
\* a length reported up front
IsByteSeqField(v) ==
    /\ v[1] = "struct"
    /\ Len(v[2]) = 1
    /\ v[2][1][2][1] \in {"seq", "seq_unsized"}
    /\ \A i \in 1 .. Len(v[2][1][2][2]) : v[2][1][2][2][i][1] = "i8"

\* the calls that put the i32 count of a List in the sink, and that count
IsListCount(call) ==
    \/ call.c = "write_tag_header" /\ call.dh.d = "List"
    \/ call.c = "write_i32" /\ call.by = "serialize_tuple"
ListCountOf(call) == IF call.c = "write_i32" THEN call.n ELSE call.dh.len

\* C26: in a successful encoding the i32 count written in a List header is
\* the number of element payloads written for the list, also when the
\* sequence reports no length up front (serialize_seq(None)).
C26_CountIsElements ==
    (op = "to_bytes" /\ IsByteSeqField(value) /\ enc.st = "ok")
        => \A i \in 1 .. Len(enc.calls) :
              IsListCount(enc.calls[i])
                 => ListCountOf(enc.calls[i])
                       = Cardinality({ j \in 1 .. Len(enc.calls) : enc.calls[j].c = "write_i8" })

\* a record whose first field is an annotated array with no element
IsEmptyArrayField(v) ==
    /\ v[1] = "struct"
    /\ Len(v[2]) >= 1
    /\ v[2][1][2][1] \in {"byte_array", "int_array", "long_array"}
    /\ v[2][1][2][2] = << >>

\* C27: an empty annotated array in a record field is written as the array
\* kind byte, the field name and the i32 count 0 as its whole payload;
\* decoding the output gives the empty array and the fields after it.
C27_EmptyArray ==
    IsEmptyArrayField(value)
        => /\ op = "to_bytes"
                => /\ enc.st = "ok"
                   /\ enc.out = Root(Entry(WireKind(value[2][1][2]), value[2][1][1],
                                           << 0, 0, 0, 0 >>)
                                     \o WireEntries(Tail(value[2])))
           /\ op = "round_trip" => (dec.st = "ok" /\ dec.v = Plain(value))

\* from_slice has returned a value or an error
Returned == op = "ended" /\ dec.st \in {"ok", "err"}

\* how far current_pos is from length
Remaining(q) ==
    IF q.length >= q.current_pos THEN q.length - q.current_pos ELSE q.current_pos - q.length

\* an iteration of the compound loop that goes on has consumed a byte
CompoundProgress ==
    (op = "decoding" /\ access.pc = "key" /\ op' = "decoding")
        => access'.pos > access.pos

\* an iteration of the element loop that goes on has consumed a byte or
\* has brought current_pos nearer to length
ElementProgress ==
    (op = "decoding" /\ access.pc = "element" /\ op' = "decoding" /\ access'.pc = "element")
        => \/ access'.pos > access.pos
           \/ Remaining(access'.seq) < Remaining(access.seq)

\* C28: decoding always terminates: from_slice returns a value or an error
\* after finitely many steps, every iteration of the compound loop and of
\* the element loop consuming at least one byte, advancing current_pos
\* toward length, or failing.
C28_Terminates == <>Returned /\ [][CompoundProgress /\ ElementProgress]_vars

\* C29: the unreachable!() of next_value_seed is never reached: when the
\* visitor calls next_value_seed after a next_key_seed that returned a key,
\* the saved kind is Some and is the kind byte of the entry in hand, never
\* the kind of an earlier entry.
C29_SavedKind ==
    /\ access.pc # "unreachable"
    /\ (op = "decoding" /\ access.pc \in {"value", "element"})
          => /\ access.kind # "None"
             /\ access.kind = KindFromU8(KindByteAt(access.entry))

\* next_value_seed is about to be called for a second entry, whose kind is
\* not the kind of the first
C29_Witness ==
    /\ op = "decoding"
    /\ access.pc = "value"
    /\ Len(access.kinds) = 2
    /\ access.kinds[1] # KindFromU8(KindByteAt(access.entry))

\* the stream holds an entry "x" the target has no field for
HasIgnoredEntry ==
    /\ op = "from_slice"
    /\ target = TargetOf(IgnoreBase)
    /\ \E x \in IgnoredValues, k \in 0 .. 2 : stream = IgnoreStream(x, k)

====
